---- MODULE Spec2Model ----
(***************************************************************************)
(* Model of the pump.fun bot's stream client (PumpFunWebSocket,            *)
(* src/unnamed/part_001 lines 172-303) and trade orchestrator              *)
(* (SolanaTrader, src/pump-fun-claude-bot/src/index.ts lines 479-768).     *)
(*                                                                         *)
(* The stream client is a single object whose socket callbacks all close   *)
(* over `this`: every socket ever created by connect() keeps its open,     *)
(* close and error handlers for as long as it lives, whether or not the    *)
(* client still holds it in this.ws.  The sockets are therefore modelled   *)
(* one by one, each with the promise of the connect() call that made it.   *)
(* The `ws` library is the environment: a CONNECTING socket emits either   *)
(* "open" or "error" followed by "close"; close() on a CONNECTING socket   *)
(* aborts the handshake (error, then close); close() on an OPEN socket is  *)
(* followed by "close".                                                    *)
(***************************************************************************)
EXTENDS Integers, Sequences, FiniteSets, TLC

(* ------------------------------ bounds -------------------------------- *)
\* connect() calls made by the caller (timer-driven calls are not counted)
MaxCallerConnects == 2
\* handshakes the venue lets succeed; afterwards every handshake fails
MaxOpens == 2

(* ------------------------- program constants -------------------------- *)
\* the command-line program calls connect() once
CliConnects == 1
maxReconnectAttempts == 5
BaseDelayMs == 1000
MaxDelayMs == 30000

(* -------------------------- stream client ----------------------------- *)
VARIABLES
  ws,                 \* this.ws: NoSocket (null), a live socket, or ClosedSocket
  socks,              \* the live sockets: readyState and the connect() promise
  reconnectAttempts,  \* this.reconnectAttempts
  isConnected,        \* this.isConnected
  timers,             \* pending setTimeout callbacks of attemptReconnect
  lastDelay,          \* delay handed to the most recent setTimeout (0: none yet)
  callerConnects,     \* history: connect() calls made by the caller
  opens,              \* history: "open" events delivered
  autoMade,           \* history: timer-driven connect() calls since the last
                      \*   "open" event or caller connect()
  shutdown            \* history: disconnect() was called and the caller has
                      \*   not called connect() since

streamVars == <<ws, socks, reconnectAttempts, isConnected, timers, lastDelay,
                callerConnects, opens, autoMade, shutdown>>

(* --------------------- stream client: subscriptions ------------------- *)
VARIABLES
  onNewToken,         \* this.onNewToken: NoHandler (null) or a callback
  onTrade,            \* this.onTrade: NoHandler (null) or a callback
  subscribedTokens,   \* this.subscribedTokens
  nSent,              \* history: frames handed to this.ws.send() so far
  lastSent,           \* history: the last of them, or NoFrame
  calls,              \* history: subscribe/unsubscribe calls made
  registered          \* history: the callback most recently passed to
                      \*   subscribeToNewTokens / to subscribeToToken

subVars == <<onNewToken, onTrade, subscribedTokens, nSent, lastSent, calls,
             registered>>

(* --------------------- stream client: inbound frames ------------------ *)
VARIABLES
  lastMsg,            \* history: the data of the latest "message" event
  invoked,            \* history: the callbacks its listener invoked, in order
  prevMsg,            \* history: the data of the "message" event before it
  prevInvoked         \* history: the callbacks that one invoked

msgVars == <<lastMsg, invoked, prevMsg, prevInvoked>>

(* ------------------------- trade orchestrator ------------------------- *)
VARIABLES
  wallet,             \* this.wallet is set (a Keypair) or null
  trade,              \* history: the most recent buyToken/sellToken call, with
                      \*   this.wallet as it was and what the network answered
  netlog,             \* network calls made by that call, in order
  txn,                \* instructions of the transaction it handed to
                      \*   sendAndConfirmTransaction, <<>> if it did not
  tresult,            \* the TradeResult it returned, or NoResult
  traised,            \* the call threw instead of returning
  walletCall          \* history: the most recent initializeWallet() call,
                      \*   this.wallet as it was and the error it threw

traderVars == <<wallet, trade, netlog, txn, tresult, traised, walletCall>>

(* ------------------------------ pricing ------------------------------- *)
VARIABLES
  quote               \* history: the latest pricing computation, its
                      \*   arguments and the number it returned

priceVars == <<quote>>

(* ------------------------ instruction encoder ------------------------- *)
VARIABLES
  built               \* history: the latest instruction build (by a
                      \*   builder call, or within the latest buyToken or
                      \*   sellToken call), its two amounts and the
                      \*   instruction or the error it gave

encVars == <<built>>

vars == <<streamVars, subVars, msgVars, traderVars, priceVars, encVars>>

Slots == 1..MaxCallerConnects
NoSocket == 0
ClosedSocket == -1

FreeSock == [st |-> "free", promise |-> "none"]

Min(a, b) == IF a <= b THEN a ELSE b

RECURSIVE Pow2(_)
Pow2(n) == IF n = 0 THEN 1 ELSE 2 * Pow2(n - 1)

\* mutant: the cap is forgotten
ReconnectDelayUncapped(n) == BaseDelayMs * Pow2(n)

\* Math.min(1000 * Math.pow(2, this.reconnectAttempts), 30000)
ReconnectDelay(n) == Min(BaseDelayMs * Pow2(n), MaxDelayMs)

\* resolve()/reject() of a promise: only a pending promise settles
Settle(p, outcome) == IF p = "pending" THEN outcome ELSE p

Live(s) == socks[s].st # "free"

\* connect(): a new socket with its handlers, stored in this.ws
connect ==
  \E s \in Slots :
    /\ ~Live(s)
    /\ \A t \in Slots : t < s => Live(t)
    /\ socks' = [socks EXCEPT ![s] = [st |-> "connecting", promise |-> "pending"]]
    /\ ws' = s

\* mutant: the attempt is counted but no timer is set
attemptReconnectNoTimer ==
  IF reconnectAttempts >= maxReconnectAttempts
  THEN UNCHANGED <<reconnectAttempts, timers, lastDelay>>
  ELSE /\ reconnectAttempts' = reconnectAttempts + 1
       /\ UNCHANGED <<timers, lastDelay>>

\* attemptReconnect(): give up at the cap, else count and schedule connect()
attemptReconnect ==
  IF reconnectAttempts >= maxReconnectAttempts
  THEN UNCHANGED <<reconnectAttempts, timers, lastDelay>>
  ELSE /\ reconnectAttempts' = reconnectAttempts + 1
       /\ lastDelay' = ReconnectDelay(reconnectAttempts + 1)
       /\ timers' = timers + 1

\* the caller calls connect()
CallerConnect(maxC) ==
  /\ callerConnects < maxC
  /\ connect
  /\ callerConnects' = callerConnects + 1
  /\ autoMade' = 0
  /\ shutdown' = FALSE
  /\ UNCHANGED <<reconnectAttempts, isConnected, timers, lastDelay, opens>>
  /\ UNCHANGED <<subVars, msgVars, traderVars, priceVars, encVars>>

\* a reconnect timer fires: this.connect().catch(log)
TimerFire ==
  /\ timers > 0
  /\ timers' = timers - 1
  /\ connect
  /\ autoMade' = Min(autoMade + 1, maxReconnectAttempts + 1)
  /\ UNCHANGED <<reconnectAttempts, isConnected, lastDelay, callerConnects,
                 opens, shutdown>>
  /\ UNCHANGED <<subVars, msgVars, traderVars, priceVars, encVars>>

\* mutant: the open handler forgets to reset the attempt counter
OpenEventNoReset(s, maxO) ==
  /\ socks[s].st = "connecting"
  /\ opens < maxO
  /\ isConnected' = TRUE
  /\ socks' = [socks EXCEPT ![s] = [st |-> "open",
                                    promise |-> Settle(@.promise, "resolved")]]
  /\ opens' = opens + 1
  /\ autoMade' = 0
  /\ UNCHANGED <<ws, reconnectAttempts, timers, lastDelay, callerConnects,
                 shutdown>>
  /\ UNCHANGED <<subVars, msgVars, traderVars, priceVars, encVars>>

\* mutant: the open handler sends the new-token subscription again when a
\* handler is registered
OpenEventResubscribing(s, maxO) ==
  /\ socks[s].st = "connecting"
  /\ opens < maxO
  /\ isConnected' = TRUE
  /\ reconnectAttempts' = 0
  /\ socks' = [socks EXCEPT ![s] = [st |-> "open",
                                    promise |-> Settle(@.promise, "resolved")]]
  /\ opens' = opens + 1
  /\ autoMade' = 0
  /\ UNCHANGED <<ws, timers, lastDelay, callerConnects, shutdown>>
  /\ IF onNewToken # "null"
     THEN nSent' = nSent + 1 /\ lastSent' = [method |-> "subscribeNewToken"]
     ELSE UNCHANGED <<nSent, lastSent>>
  /\ UNCHANGED <<onNewToken, onTrade, subscribedTokens, calls, registered>>
  /\ UNCHANGED <<msgVars, traderVars, priceVars, encVars>>

\* ws.on("open")
OpenEvent(s, maxO) ==
  /\ socks[s].st = "connecting"
  /\ opens < maxO
  /\ isConnected' = TRUE
  /\ reconnectAttempts' = 0
  /\ socks' = [socks EXCEPT ![s] = [st |-> "open",
                                    promise |-> Settle(@.promise, "resolved")]]
  /\ opens' = opens + 1
  /\ autoMade' = 0
  /\ UNCHANGED <<ws, timers, lastDelay, callerConnects, shutdown>>
  /\ UNCHANGED <<subVars, msgVars, traderVars, priceVars, encVars>>

\* ws.on("error"): the socket is on its way to "close"
ErrorEvent(s) ==
  /\ socks[s].st \in {"connecting", "aborting", "open"}
  /\ socks' = [socks EXCEPT ![s] =
                 [st |-> "failing",
                  promise |-> IF ~isConnected THEN Settle(@.promise, "rejected")
                              ELSE @.promise]]
  /\ UNCHANGED <<ws, reconnectAttempts, isConnected, timers, lastDelay,
                 callerConnects, opens, autoMade, shutdown>>
  /\ UNCHANGED <<subVars, msgVars, traderVars, priceVars, encVars>>

\* ws.on("close"): the socket is gone afterwards
CloseEvent(s) ==
  /\ socks[s].st \in {"open", "failing", "closing"}
  /\ isConnected' = FALSE
  /\ attemptReconnect
  /\ socks' = [socks EXCEPT ![s] = FreeSock]
  /\ ws' = IF ws = s THEN ClosedSocket ELSE ws
  /\ UNCHANGED <<callerConnects, opens, autoMade, shutdown>>
  /\ UNCHANGED <<subVars, msgVars, traderVars, priceVars, encVars>>

\* WebSocket.close() as the library performs it on a socket in state st
CloseCall(st) ==
  CASE st = "connecting" -> "aborting"
    [] st = "open" -> "closing"
    [] OTHER -> st

\* mutant: this.ws is not cleared
disconnectRunKeepsSocket(w, sk, ic) ==
  IF w # NoSocket
  THEN [ws |-> w,
        socks |-> IF w \in Slots THEN [sk EXCEPT ![w].st = CloseCall(@)] ELSE sk,
        isConnected |-> FALSE,
        closeCalls |-> 1]
  ELSE [ws |-> w, socks |-> sk, isConnected |-> ic, closeCalls |-> 0]

\* the body of disconnect() on a client that holds w in this.ws: what it
\* leaves in this.ws, in the sockets and in this.isConnected, and how often
\* it called close()
disconnectRun(w, sk, ic) ==
  IF w # NoSocket
  THEN [ws |-> NoSocket,
        socks |-> IF w \in Slots THEN [sk EXCEPT ![w].st = CloseCall(@)] ELSE sk,
        isConnected |-> FALSE,
        closeCalls |-> 1]
  ELSE [ws |-> w, socks |-> sk, isConnected |-> ic, closeCalls |-> 0]

\* disconnect()
Disconnect ==
  /\ LET run == disconnectRun(ws, socks, isConnected)
     IN  /\ ws' = run.ws
         /\ socks' = run.socks
         /\ isConnected' = run.isConnected
  /\ shutdown' = TRUE
  /\ UNCHANGED <<reconnectAttempts, timers, lastDelay, callerConnects, opens,
                 autoMade>>
  /\ UNCHANGED <<subVars, msgVars, traderVars, priceVars, encVars>>

(* --------------------- stream client: subscriptions ------------------- *)
\* subscribe/unsubscribe calls made by the caller
MaxCalls == 2

Handlers == {"h1", "h2"}
NoHandler == "null"
Mints == {"m1", "m2"}

NoFrame == [method |-> "none"]

\* mutant: the frame is sent whatever the connection state
sendAlways(frame) == nSent' = nSent + 1 /\ lastSent' = frame

\* if (this.ws && this.isConnected) this.ws.send(JSON.stringify(frame))
sendIfConnected(frame) ==
  IF ws # NoSocket /\ isConnected
  THEN nSent' = nSent + 1 /\ lastSent' = frame
  ELSE UNCHANGED <<nSent, lastSent>>

\* mutant: a handler that is already registered is kept
subscribeToNewTokensKeepFirst(callback) ==
  /\ calls < MaxCalls
  /\ onNewToken' = IF onNewToken = NoHandler THEN callback ELSE onNewToken
  /\ registered' = [registered EXCEPT !.newToken = callback]
  /\ sendIfConnected([method |-> "subscribeNewToken"])
  /\ calls' = calls + 1
  /\ UNCHANGED <<onTrade, subscribedTokens>>
  /\ UNCHANGED <<streamVars, msgVars, traderVars, priceVars, encVars>>

\* subscribeToNewTokens(callback)
subscribeToNewTokens(callback) ==
  /\ calls < MaxCalls
  /\ onNewToken' = callback
  /\ registered' = [registered EXCEPT !.newToken = callback]
  /\ sendIfConnected([method |-> "subscribeNewToken"])
  /\ calls' = calls + 1
  /\ UNCHANGED <<onTrade, subscribedTokens>>
  /\ UNCHANGED <<streamVars, msgVars, traderVars, priceVars, encVars>>

\* subscribeToToken(mintAddress, callback?); callback = NoHandler: not given
subscribeToToken(mintAddress, callback) ==
  /\ calls < MaxCalls
  /\ onTrade' = IF callback # NoHandler THEN callback ELSE onTrade
  /\ registered' = IF callback # NoHandler
                   THEN [registered EXCEPT !.trade = callback]
                   ELSE registered
  /\ subscribedTokens' = subscribedTokens \cup {mintAddress}
  /\ sendIfConnected([method |-> "subscribeTokenTrade", keys |-> <<mintAddress>>])
  /\ calls' = calls + 1
  /\ UNCHANGED onNewToken
  /\ UNCHANGED <<streamVars, msgVars, traderVars, priceVars, encVars>>

\* unsubscribeFromToken(mintAddress)
unsubscribeFromToken(mintAddress) ==
  /\ calls < MaxCalls
  /\ subscribedTokens' = subscribedTokens \ {mintAddress}
  /\ sendIfConnected([method |-> "unsubscribeTokenTrade", keys |-> <<mintAddress>>])
  /\ calls' = calls + 1
  /\ UNCHANGED <<onNewToken, onTrade, registered>>
  /\ UNCHANGED <<streamVars, msgVars, traderVars, priceVars, encVars>>

SubInit ==
  /\ onNewToken = NoHandler
  /\ onTrade = NoHandler
  /\ subscribedTokens = {}
  /\ nSent = 0
  /\ lastSent = NoFrame
  /\ calls = 0
  /\ registered = [newToken |-> NoHandler, trade |-> NoHandler]

(* --------------------- stream client: inbound frames ------------------ *)
\* the txType member of an inbound JSON object; "missing": it has none
TxTypes == {"create", "buy", "sell", "swap", "missing"}

\* inbound data: text that is not JSON, the JSON text null, or a JSON object
Frames ==
  {[json |-> "garbage"], [json |-> "null"]}
    \cup {[json |-> "object", txType |-> t] : t \in TxTypes}

NoMsg == [json |-> "none"]

\* JSON.parse(data.toString()): throws on text that is not JSON
parse(data) ==
  IF data.json = "garbage" THEN [threw |-> TRUE]
  ELSE [threw |-> FALSE, message |-> data]

Invocation(field, callback) == <<[field |-> field, callback |-> callback]>>

\* mutant: every frame that is not a "create" goes to the trade handler
handleMessageTradeDefault(message) ==
  IF message.json = "null" THEN <<>>
  ELSE IF message.txType = "create" /\ onNewToken # NoHandler
  THEN Invocation("onNewToken", onNewToken)
  ELSE IF onTrade # NoHandler
  THEN Invocation("onTrade", onTrade)
  ELSE <<>>

\* handleMessage(message): the callbacks invoked; reading txType of null
\* throws, inside the listener's try block
handleMessage(message) ==
  IF message.json = "null" THEN <<>>
  ELSE IF message.txType = "create" /\ onNewToken # NoHandler
  THEN Invocation("onNewToken", onNewToken)
  ELSE IF message.txType \in {"buy", "sell"} /\ onTrade # NoHandler
  THEN Invocation("onTrade", onTrade)
  ELSE <<>>

\* the listener's try block; its catch only logs
onMessage(data) ==
  LET parsed == parse(data)
  IN  IF parsed.threw THEN <<>> ELSE handleMessage(parsed.message)

Record(data, callbacks) ==
  /\ prevMsg' = lastMsg
  /\ prevInvoked' = invoked
  /\ lastMsg' = data
  /\ invoked' = callbacks

\* mutant: a frame that does not parse is fatal to the socket
MessageEventFatal(s, data) ==
  /\ socks[s].st \in {"open", "closing"}
  /\ Record(data, onMessage(data))
  /\ IF parse(data).threw
     THEN /\ socks' = [socks EXCEPT ![s].st = CloseCall(@)]
          /\ isConnected' = FALSE
     ELSE UNCHANGED <<socks, isConnected>>
  /\ UNCHANGED <<ws, reconnectAttempts, timers, lastDelay, callerConnects,
                 opens, autoMade, shutdown>>
  /\ UNCHANGED <<subVars, traderVars, priceVars, encVars>>

\* ws.on("message"): a socket delivers frames while it is open, and after
\* close() until its "close" event
MessageEvent(s, data) ==
  /\ socks[s].st \in {"open", "closing"}
  /\ Record(data, onMessage(data))
  /\ UNCHANGED <<streamVars, subVars, traderVars, priceVars, encVars>>

MsgInit ==
  /\ lastMsg = NoMsg
  /\ invoked = <<>>
  /\ prevMsg = NoMsg
  /\ prevInvoked = <<>>

(* ------------------------------ numbers ------------------------------- *)
(* The pricing code computes on the `number` type: IEEE-754 binary64, a    *)
(* sign, a 53-bit significand and a binary exponent, every operation       *)
(* rounding its exact result to the nearest such value, ties to the even   *)
(* significand.  The significands and the exact intermediate results are   *)
(* naturals beyond the machine word; they are held as little-endian        *)
(* sequences of limbs, <<>> being zero and the top limb never zero.        *)
(***************************************************************************)
LimbBits == 15
LimbBase == Pow2(LimbBits)
\* bits of a binary64 significand
SignificandBits == 53

RECURSIVE NatOf(_)
NatOf(n) == IF n = 0 THEN <<>> ELSE <<n % LimbBase>> \o NatOf(n \div LimbBase)

RECURSIVE Trim(_)
Trim(a) ==
  IF a = <<>> THEN a
  ELSE IF a[Len(a)] = 0 THEN Trim(SubSeq(a, 1, Len(a) - 1))
  ELSE a

RECURSIVE AddCarry(_, _, _)
AddCarry(a, b, c) ==
  IF a = <<>> /\ b = <<>> THEN NatOf(c)
  ELSE LET x == IF a = <<>> THEN 0 ELSE Head(a)
           y == IF b = <<>> THEN 0 ELSE Head(b)
           t == x + y + c
       IN  <<t % LimbBase>> \o AddCarry(IF a = <<>> THEN a ELSE Tail(a),
                                         IF b = <<>> THEN b ELSE Tail(b),
                                         t \div LimbBase)

BAdd(a, b) == AddCarry(a, b, 0)

RECURSIVE SubBorrow(_, _, _)
SubBorrow(a, b, c) ==
  IF a = <<>> THEN <<>>
  ELSE LET y == IF b = <<>> THEN 0 ELSE Head(b)
           t == Head(a) - y - c
       IN  <<t % LimbBase>> \o SubBorrow(Tail(a),
                                          IF b = <<>> THEN b ELSE Tail(b),
                                          IF t < 0 THEN 1 ELSE 0)

\* a - b, for a >= b
BSub(a, b) == Trim(SubBorrow(a, b, 0))

RECURSIVE MulCarry(_, _, _)
MulCarry(a, m, c) ==
  IF a = <<>> THEN NatOf(c)
  ELSE LET t == Head(a) * m + c
       IN  <<t % LimbBase>> \o MulCarry(Tail(a), m, t \div LimbBase)

\* a * m, for a limb m
BMulSmall(a, m) == IF m = 0 THEN <<>> ELSE MulCarry(a, m, 0)

\* a * LimbBase^k
ShiftLimbs(a, k) == IF a = <<>> THEN a ELSE [i \in 1..k |-> 0] \o a

RECURSIVE BMul(_, _)
BMul(a, b) ==
  IF a = <<>> \/ b = <<>> THEN <<>>
  ELSE BAdd(BMulSmall(a, Head(b)), ShiftLimbs(BMul(a, Tail(b)), 1))

RECURSIVE CmpFrom(_, _, _)
CmpFrom(a, b, i) ==
  IF i = 0 THEN 0
  ELSE IF a[i] < b[i] THEN -1
  ELSE IF a[i] > b[i] THEN 1
  ELSE CmpFrom(a, b, i - 1)

\* -1, 0 or 1 as a is less than, equal to or greater than b
BCmp(a, b) ==
  IF Len(a) < Len(b) THEN -1
  ELSE IF Len(a) > Len(b) THEN 1
  ELSE CmpFrom(a, b, Len(a))

RECURSIVE BitLenSmall(_)
BitLenSmall(n) == IF n = 0 THEN 0 ELSE 1 + BitLenSmall(n \div 2)

BitLen(a) ==
  IF a = <<>> THEN 0 ELSE LimbBits * (Len(a) - 1) + BitLenSmall(a[Len(a)])

\* a * 2^n
BShl(a, n) == BMulSmall(ShiftLimbs(a, n \div LimbBits), Pow2(n % LimbBits))

\* floor(a / 2^n)
BShr(a, n) ==
  LET k == n \div LimbBits
      r == n % LimbBits
      d == IF k >= Len(a) THEN <<>> ELSE SubSeq(a, k + 1, Len(a))
  IN  Trim([i \in 1..Len(d) |->
              (d[i] \div Pow2(r))
                + (IF i < Len(d) THEN (d[i + 1] % Pow2(r)) * Pow2(LimbBits - r)
                   ELSE 0)])

\* the largest limb d in lo..hi with d * b <= r, by bisection
RECURSIVE QuotientLimb(_, _, _, _)
QuotientLimb(r, b, lo, hi) ==
  IF lo = hi THEN lo
  ELSE LET mid == (lo + hi + 1) \div 2
       IN  IF BCmp(BMulSmall(b, mid), r) <= 0
           THEN QuotientLimb(r, b, mid, hi)
           ELSE QuotientLimb(r, b, lo, mid - 1)

\* long division, one limb of a at a time from limb i down: q and r are
\* the quotient and the remainder of the limbs above i
RECURSIVE DivStep(_, _, _, _, _)
DivStep(a, b, i, q, r) ==
  IF i = 0 THEN [q |-> q, r |-> r]
  ELSE LET r2 == IF r = <<>> THEN NatOf(a[i]) ELSE <<a[i]>> \o r
           d == QuotientLimb(r2, b, 0, LimbBase - 1)
           q2 == IF q = <<>> THEN NatOf(d) ELSE <<d>> \o q
       IN  DivStep(a, b, i - 1, q2, BSub(r2, BMulSmall(b, d)))

\* quotient and remainder of a by b, for b > 0
BDivMod(a, b) == DivStep(a, b, Len(a), <<>>, <<>>)

\* a natural written in groups of three decimal digits: Dec(<<30, 0, 0, 0>>)
\* is 30_000_000_000
RECURSIVE Dec(_)
Dec(groups) ==
  IF groups = <<>> THEN <<>>
  ELSE AddCarry(BMulSmall(Dec(SubSeq(groups, 1, Len(groups) - 1)), 1000), <<>>,
                groups[Len(groups)])

\* the number 0 (the sign of zero is not kept)
Zero == [s |-> 1, m |-> <<>>, e |-> 0]
\* NaN, and Infinity with the sign s
NaN == [s |-> 0, m |-> <<>>, e |-> 0]
Infinity(s) == [s |-> s, m |-> <<>>, e |-> 1]

IsNaN(x) == x.s = 0
IsInfinite(x) == x.s # 0 /\ x.m = <<>> /\ x.e = 1
IsZero(x) == x.s # 0 /\ x.m = <<>> /\ x.e = 0
IsFinite(x) == ~IsNaN(x) /\ ~IsInfinite(x)

\* the binary64 value nearest to s * (n + f) * 2^e, where 0 <= f < 1 and
\* sticky says whether f > 0 (then n has more than SignificandBits + 1 bits);
\* ties go to the even significand
RoundToDouble(s, n, e, sticky) ==
  IF n = <<>> THEN Zero
  ELSE
    LET bl == BitLen(n)
    IN  IF bl <= SignificandBits
        THEN [s |-> s, m |-> BShl(n, SignificandBits - bl),
              e |-> e - (SignificandBits - bl)]
        ELSE
          LET d == bl - SignificandBits
              q == BShr(n, d)
              rem == BSub(n, BShl(q, d))
              c == BCmp(rem, BShl(<<1>>, d - 1))
              up == c > 0 \/ (c = 0 /\ (sticky \/ Head(q) % 2 = 1))
              q1 == IF up THEN AddCarry(q, <<>>, 1) ELSE q
          IN  IF BitLen(q1) > SignificandBits
              THEN [s |-> s, m |-> BShr(q1, 1), e |-> e + d + 1]
              ELSE [s |-> s, m |-> q1, e |-> e + d]

\* the number nearest to the natural n
FromNat(n) == RoundToDouble(1, n, 0, FALSE)

FNeg(x) == IF IsNaN(x) \/ IsZero(x) THEN x ELSE [x EXCEPT !.s = -x.s]

\* x + y
FAdd(x, y) ==
  IF IsNaN(x) \/ IsNaN(y) THEN NaN
  ELSE IF IsInfinite(x)
  THEN (IF IsInfinite(y) /\ y.s # x.s THEN NaN ELSE x)
  ELSE IF IsInfinite(y) THEN y
  ELSE IF IsZero(x) THEN y
  ELSE IF IsZero(y) THEN x
  ELSE
    LET e == Min(x.e, y.e)
        a == BShl(x.m, x.e - e)
        b == BShl(y.m, y.e - e)
        c == BCmp(a, b)
    IN  IF x.s = y.s THEN RoundToDouble(x.s, BAdd(a, b), e, FALSE)
        ELSE IF c = 0 THEN Zero
        ELSE IF c > 0 THEN RoundToDouble(x.s, BSub(a, b), e, FALSE)
        ELSE RoundToDouble(y.s, BSub(b, a), e, FALSE)

\* x - y
FSub(x, y) == FAdd(x, FNeg(y))

\* x * y
FMul(x, y) ==
  IF IsNaN(x) \/ IsNaN(y) THEN NaN
  ELSE IF IsInfinite(x) \/ IsInfinite(y)
  THEN (IF IsZero(x) \/ IsZero(y) THEN NaN ELSE Infinity(x.s * y.s))
  ELSE RoundToDouble(x.s * y.s, BMul(x.m, y.m), x.e + y.e, FALSE)

\* x / y; the zero divisors of the pricing code are sums and so +0
FDiv(x, y) ==
  IF IsNaN(x) \/ IsNaN(y) THEN NaN
  ELSE IF IsInfinite(x)
  THEN (IF IsInfinite(y) THEN NaN ELSE Infinity(x.s * y.s))
  ELSE IF IsInfinite(y) THEN Zero
  ELSE IF IsZero(y) THEN (IF IsZero(x) THEN NaN ELSE Infinity(x.s))
  ELSE IF IsZero(x) THEN Zero
  ELSE LET shift == SignificandBits + 3
           d == BDivMod(BShl(x.m, shift), y.m)
       IN  RoundToDouble(x.s * y.s, d.q, x.e - y.e - shift, d.r # <<>>)

\* -1, 0 or 1 as x is less than, equal to or greater than y, and 2 when
\* one of them is NaN (every comparison with NaN is false)
FCmp(x, y) ==
  IF IsNaN(x) \/ IsNaN(y) THEN 2
  ELSE IF IsInfinite(x)
  THEN (IF IsInfinite(y) /\ y.s = x.s THEN 0 ELSE x.s)
  ELSE IF IsInfinite(y) THEN -y.s
  ELSE IF IsZero(x) /\ IsZero(y) THEN 0
  ELSE IF IsZero(x) THEN -y.s
  ELSE IF IsZero(y) THEN x.s
  ELSE IF x.s # y.s THEN x.s
  ELSE IF x.e # y.e THEN (IF x.e > y.e THEN x.s ELSE -x.s)
  ELSE x.s * BCmp(x.m, y.m)

\* x is a whole number
IsInteger(x) ==
  IsFinite(x) /\ (x.e >= 0 \/ BShl(BShr(x.m, -x.e), -x.e) = x.m)

\* Math.floor(x)
Floor(x) ==
  IF ~IsFinite(x) \/ x.e >= 0 THEN x
  ELSE LET n == BShr(x.m, -x.e)
       IN  IF x.s = 1 \/ IsInteger(x) THEN RoundToDouble(x.s, n, 0, FALSE)
           ELSE RoundToDouble(x.s, AddCarry(n, <<>>, 1), 0, FALSE)

(* ------------------------------ pricing ------------------------------- *)
\* calculateExpectedTokens(solLamports, virtualSolReserves,
\* virtualTokenReserves), on numbers
calculateExpectedTokens(solLamports, virtualSolReserves, virtualTokenReserves) ==
  LET k == FMul(virtualSolReserves, virtualTokenReserves)
      newSolReserves == FAdd(virtualSolReserves, solLamports)
      newTokenReserves == FDiv(k, newSolReserves)
  IN  FSub(virtualTokenReserves, newTokenReserves)

\* mutant: the token amount is added to the SOL reserve, as in a buy
calculateExpectedSolUnswapped(tokenLamports, virtualSolReserves, virtualTokenReserves) ==
  LET k == FMul(virtualSolReserves, virtualTokenReserves)
      newSolReserves == FAdd(virtualSolReserves, tokenLamports)
      newTokenReserves == FDiv(k, newSolReserves)
  IN  FSub(virtualTokenReserves, newTokenReserves)

\* calculateExpectedSol(tokenLamports, virtualSolReserves,
\* virtualTokenReserves), on numbers
calculateExpectedSol(tokenLamports, virtualSolReserves, virtualTokenReserves) ==
  LET k == FMul(virtualSolReserves, virtualTokenReserves)
      newTokenReserves == FAdd(virtualTokenReserves, tokenLamports)
      newSolReserves == FDiv(k, newTokenReserves)
  IN  FSub(virtualSolReserves, newSolReserves)

\* Math.floor(expected * (1 - config.slippageBps / 10000))
MinAcceptable(amountOut, slippageBps) ==
  Floor(FMul(amountOut,
             FSub(FromNat(NatOf(1)), FDiv(slippageBps, FromNat(NatOf(10000))))))

\* reserve states offered to the pricing functions, in base units:
\* <<sol, token>>
CurveReserves ==
  { <<Dec(<<30, 0, 0, 0>>), Dec(<<1, 0, 0, 0, 0>>)>>,
    <<Dec(<<30, 0, 0, 0>>), Dec(<<1, 73, 0, 0, 0, 0>>)>>,
    <<Dec(<<11, 870, 321, 605>>), Dec(<<132, 762, 829, 599, 805>>)>>,
    <<Dec(<<57, 469, 146, 25>>), Dec(<<638, 756, 347, 97, 682>>)>>,
    <<Dec(<<9, 458, 427, 485>>), Dec(<<721, 976, 904, 725, 407>>)>>,
    <<NatOf(1), NatOf(1)>>,
    <<NatOf(3), NatOf(7)>>,
    <<NatOf(1000), NatOf(1)>>,
    <<NatOf(0), NatOf(0)>>,
    <<NatOf(0), NatOf(7)>>,
    <<NatOf(5), NatOf(0)>> }

\* input amounts offered to the pricing functions, in base units
CurveAmounts ==
  { NatOf(0), NatOf(1), NatOf(2), NatOf(1000),
    Dec(<<50, 0, 0>>), Dec(<<100, 0, 0>>), Dec(<<1, 0, 0, 0>>),
    Dec(<<388, 24, 749>>), Dec(<<544, 799, 391>>),
    Dec(<<1, 0, 0, 0, 0, 0, 0, 0, 0, 0>>) }

\* the largest of the small output amounts offered to MinAcceptable
MaxAmountOut == 20

AmountsOut ==
  {NatOf(n) : n \in 0..MaxAmountOut}
    \cup { NatOf(500), Dec(<<32, 258, 64, 516>>),
           Dec(<<409, 775, 1, 794, 267>>) }

\* values of config.slippageBps
SlippageChoices == {0, 1, 500, 700, 3035, 8000, 9999, 10000}

NoQuote == [op |-> "none"]

\* calculateExpectedTokens on a reserve state and an input amount; the
\* functions keep no state, so each behaviour prices one trade
QuoteBuy ==
  \E r \in CurveReserves, x \in CurveAmounts :
    /\ quote = NoQuote
    /\ quote' = [op |-> "buy", sol |-> r[1], token |-> r[2], amountIn |-> x,
                 out |-> calculateExpectedTokens(FromNat(x), FromNat(r[1]),
                                                 FromNat(r[2]))]
    /\ UNCHANGED <<streamVars, subVars, msgVars, traderVars, encVars>>

\* calculateExpectedSol on a reserve state and an input amount
QuoteSell ==
  \E r \in CurveReserves, x \in CurveAmounts :
    /\ quote = NoQuote
    /\ quote' = [op |-> "sell", sol |-> r[1], token |-> r[2], amountIn |-> x,
                 out |-> calculateExpectedSol(FromNat(x), FromNat(r[1]),
                                              FromNat(r[2]))]
    /\ UNCHANGED <<streamVars, subVars, msgVars, traderVars, encVars>>

\* calculateExpectedSol on the tokens the quoted buy gives (whole: rounded
\* down to whole base units first), against the reserves that buy leaves
QuoteSellBack ==
  \E whole \in BOOLEAN :
    /\ quote.op = "buy"
    /\ LET tokens == IF whole THEN Floor(quote.out) ELSE quote.out
           solAfter == FAdd(FromNat(quote.sol), FromNat(quote.amountIn))
           tokenAfter == FSub(FromNat(quote.token), tokens)
       IN  /\ FCmp(tokens, Zero) \in {0, 1}
           /\ FCmp(tokenAfter, Zero) = 1
           /\ quote' = [op |-> "sellBack", sol |-> quote.sol,
                        token |-> quote.token, paid |-> quote.amountIn,
                        whole |-> whole, tokens |-> tokens,
                        out |-> calculateExpectedSol(tokens, solAfter,
                                                     tokenAfter)]
    /\ UNCHANGED <<streamVars, subVars, msgVars, traderVars, encVars>>

\* the floor of an expected amount under a slippage tolerance
QuoteMin ==
  \E a \in AmountsOut, bps \in SlippageChoices :
    /\ quote = NoQuote
    /\ quote' = [op |-> "min", amountOut |-> a, slippageBps |-> bps,
                 out |-> MinAcceptable(FromNat(a), FromNat(NatOf(bps)))]
    /\ UNCHANGED <<streamVars, subVars, msgVars, traderVars, encVars>>

PriceInit == quote = NoQuote

(* ------------------------ instruction encoder ------------------------- *)
\* Buffer.alloc(24)
PayloadBytes == 24
\* bits of the integer writeBigUInt64LE stores
UInt64Bits == 64
\* bits of a byte
ByteBits == 8

\* the "buy" and "sell" opcode discriminators
buyDiscriminator == <<102, 6, 61, 18, 1, 218, 235, 234>>
sellDiscriminator == <<51, 230, 133, 164, 1, 127, 131, 173>>

MsgNaN == "The number NaN cannot be converted to a BigInt"
MsgNotInteger == "The number cannot be converted to a BigInt because it is not an integer"
MsgRange == "The value is out of range"

\* BigInt(x): a RangeError unless x is a whole number; the integer is kept
\* as a sign s and a natural n
BigInt(x) ==
  IF IsNaN(x) THEN [threw |-> TRUE, error |-> MsgNaN]
  ELSE IF ~IsInteger(x) THEN [threw |-> TRUE, error |-> MsgNotInteger]
  ELSE [threw |-> FALSE, s |-> x.s,
        n |-> IF x.e >= 0 THEN BShl(x.m, x.e) ELSE BShr(x.m, -x.e)]

\* Buffer.alloc(size): size zero bytes
alloc(size) == [i \in 1..size |-> 0]

\* source.copy(target, targetStart)
copy(source, target, targetStart) ==
  [i \in 1..Len(target) |->
     IF i > targetStart /\ i <= targetStart + Len(source)
     THEN source[i - targetStart] ELSE target[i]]

\* byte i of the natural n, byte 0 the least significant
ByteAt(n, i) ==
  LET d == BShr(n, ByteBits * i)
  IN  IF d = <<>> THEN 0 ELSE d[1] % Pow2(ByteBits)

\* mutant: the most significant byte first
writeBigUInt64BE(buf, value, offset) ==
  IF value.s < 0 \/ BitLen(value.n) > UInt64Bits
  THEN [threw |-> TRUE, error |-> MsgRange]
  ELSE [threw |-> FALSE,
        buf |-> [i \in 1..Len(buf) |->
                   IF i > offset /\ i <= offset + UInt64Bits \div ByteBits
                   THEN ByteAt(value.n, UInt64Bits \div ByteBits - (i - offset))
                   ELSE buf[i]]]

\* buf.writeBigUInt64LE(value, offset): ERR_OUT_OF_RANGE unless
\* 0 <= value < 2^64
writeBigUInt64LE(buf, value, offset) ==
  IF value.s < 0 \/ BitLen(value.n) > UInt64Bits
  THEN [threw |-> TRUE, error |-> MsgRange]
  ELSE [threw |-> FALSE,
        buf |-> [i \in 1..Len(buf) |->
                   IF i > offset /\ i <= offset + UInt64Bits \div ByteBits
                   THEN ByteAt(value.n, i - offset - 1)
                   ELSE buf[i]]]

\* the data of an instruction: the discriminator, then BigInt(first) at 8
\* and BigInt(second) at 16
InstructionData(discriminator, first, second) ==
  LET data == copy(discriminator, alloc(PayloadBytes), 0)
      b1 == BigInt(first)
      w1 == writeBigUInt64LE(data, b1, 8)
      b2 == BigInt(second)
      w2 == writeBigUInt64LE(w1.buf, b2, 16)
  IN  IF b1.threw THEN b1
      ELSE IF w1.threw THEN w1
      ELSE IF b2.threw THEN b2
      ELSE w2

PUMP_FUN_PROGRAM_ID == "6EF8rrecthR5Dkzon8Nwu78hRvfCKubJ14M5uBEwF6P"
PUMP_FUN_FEE_RECIPIENT == "CebN5WGQ4jvEPvsVU4EoHEpgzq1VV7AbCJtGpGYKLXYi"
PUMP_GLOBAL_STATE == "4wTV1YmiEkRvAtNtsSGPtUrqRYQMe5SKy2uB4Jjaxnjf"
SystemProgramId == "SystemProgram.programId"
TOKEN_PROGRAM_ID == "TOKEN_PROGRAM_ID"

AccountMeta(pubkey, isSigner, isWritable) ==
  [pubkey |-> pubkey, isSigner |-> isSigner, isWritable |-> isWritable]

\* what a builder hands back: the instruction, or the error it threw
Instruction(keys, w) ==
  IF w.threw THEN w
  ELSE [threw |-> FALSE, programId |-> PUMP_FUN_PROGRAM_ID, keys |-> keys,
        data |-> w.buf]

\* mutant: the wallet is listed before the token account
buildSellInstructionWalletFirst(seller, mint, bondingCurve, associatedBondingCurve, sellerAta, tokenAmount, minSol) ==
  Instruction(
    << AccountMeta(PUMP_GLOBAL_STATE, FALSE, FALSE),
       AccountMeta(PUMP_FUN_FEE_RECIPIENT, FALSE, TRUE),
       AccountMeta(mint, FALSE, FALSE),
       AccountMeta(bondingCurve, FALSE, TRUE),
       AccountMeta(associatedBondingCurve, FALSE, TRUE),
       AccountMeta(seller, TRUE, TRUE),
       AccountMeta(sellerAta, FALSE, TRUE),
       AccountMeta(SystemProgramId, FALSE, FALSE),
       AccountMeta(TOKEN_PROGRAM_ID, FALSE, FALSE) >>,
    InstructionData(sellDiscriminator, tokenAmount, minSol))

\* buildSellInstruction(seller, mint, bondingCurve, associatedBondingCurve,
\* sellerAta, tokenAmount, minSol)
buildSellInstruction(seller, mint, bondingCurve, associatedBondingCurve, sellerAta, tokenAmount, minSol) ==
  Instruction(
    << AccountMeta(PUMP_GLOBAL_STATE, FALSE, FALSE),
       AccountMeta(PUMP_FUN_FEE_RECIPIENT, FALSE, TRUE),
       AccountMeta(mint, FALSE, FALSE),
       AccountMeta(bondingCurve, FALSE, TRUE),
       AccountMeta(associatedBondingCurve, FALSE, TRUE),
       AccountMeta(sellerAta, FALSE, TRUE),
       AccountMeta(seller, TRUE, TRUE),
       AccountMeta(SystemProgramId, FALSE, FALSE),
       AccountMeta(TOKEN_PROGRAM_ID, FALSE, FALSE) >>,
    InstructionData(sellDiscriminator, tokenAmount, minSol))

\* buildBuyInstruction(buyer, mint, bondingCurve, associatedBondingCurve,
\* buyerAta, solAmount, minTokens)
buildBuyInstruction(buyer, mint, bondingCurve, associatedBondingCurve, buyerAta, solAmount, minTokens) ==
  Instruction(
    << AccountMeta(PUMP_GLOBAL_STATE, FALSE, FALSE),
       AccountMeta(PUMP_FUN_FEE_RECIPIENT, FALSE, TRUE),
       AccountMeta(mint, FALSE, FALSE),
       AccountMeta(bondingCurve, FALSE, TRUE),
       AccountMeta(associatedBondingCurve, FALSE, TRUE),
       AccountMeta(buyerAta, FALSE, TRUE),
       AccountMeta(buyer, TRUE, TRUE),
       AccountMeta(SystemProgramId, FALSE, FALSE),
       AccountMeta(TOKEN_PROGRAM_ID, FALSE, FALSE) >>,
    InstructionData(buyDiscriminator, minTokens, solAmount))

\* amounts offered to the builders: whole numbers of the unsigned 64-bit
\* range (2^53, 2^63 and 2^64 - 2048, the largest number below 2^64, among
\* them), and numbers that are not such amounts
EncoderAmounts ==
  { FromNat(NatOf(0)), FromNat(NatOf(1)), FromNat(NatOf(255)),
    FromNat(NatOf(256)), FromNat(NatOf(47499999)), FromNat(NatOf(50000000)),
    FromNat(Dec(<<32, 258, 64, 516>>)),
    FromNat(BShl(NatOf(1), SignificandBits)),
    FromNat(BShl(NatOf(1), UInt64Bits - 1)),
    FromNat(BSub(BShl(NatOf(1), UInt64Bits), NatOf(2048))),
    FromNat(BShl(NatOf(1), UInt64Bits)),
    FNeg(FromNat(NatOf(1))),
    FDiv(FromNat(NatOf(1)), FromNat(NatOf(2))),
    NaN }

NoInstruction == [op |-> "none"]

\* buildBuyInstruction on two amounts; the builders keep no state, so each
\* behaviour builds one instruction
EncodeBuy ==
  \E solAmount \in EncoderAmounts, minTokens \in EncoderAmounts :
    /\ built = NoInstruction
    /\ built' = [op |-> "buy", solAmount |-> solAmount,
                 minTokens |-> minTokens,
                 ix |-> buildBuyInstruction("wallet", "mint", "bondingCurve",
                                            "associatedBondingCurve", "ata",
                                            solAmount, minTokens)]
    /\ UNCHANGED <<streamVars, subVars, msgVars, traderVars, priceVars>>

\* buildSellInstruction on two amounts
EncodeSell ==
  \E tokenAmount \in EncoderAmounts, minSol \in EncoderAmounts :
    /\ built = NoInstruction
    /\ built' = [op |-> "sell", tokenAmount |-> tokenAmount,
                 minSol |-> minSol,
                 ix |-> buildSellInstruction("wallet", "mint", "bondingCurve",
                                             "associatedBondingCurve", "ata",
                                             tokenAmount, minSol)]
    /\ UNCHANGED <<streamVars, subVars, msgVars, traderVars, priceVars>>

EncoderInit == built = NoInstruction

(* ------------------------- trade orchestrator ------------------------- *)
\* config.maxBuyAmount (default "0.1" SOL), in thousandths of a SOL
maxBuyAmount == 100
\* config.slippageBps (default "500")
slippageBps == 500
\* LAMPORTS_PER_SOL / 1000: lamports in a thousandth of a SOL
LamportsPerMilliSol == 1000000
\* thousandths in a SOL
MilliSolPerSol == 1000
\* 1e6: token base units in one display token
TokenUnitsPerToken == 1000000
LAMPORTS_PER_SOL == Dec(<<1, 0, 0, 0>>)

\* buy amounts offered by the caller, in thousandths of a SOL
BuyAmounts == {-1, 0, 50, 100, 101}
\* sell amounts offered by the caller, in display tokens
SellAmounts == {-1, 0, 5}

\* token snapshots: whether mint, bonding_curve and associated_bonding_curve
\* are well-formed addresses, the reserves in base units, and the complete
\* flag
Reserves == {<<0, 0>>, <<314918511, 1094755533>>}
Tokens ==
  {[addrOk |-> a, virtual_sol_reserves |-> r[1],
    virtual_token_reserves |-> r[2], complete |-> c] :
     a \in BOOLEAN, r \in Reserves, c \in BOOLEAN}

NoTrade == [op |-> "none"]
NoResult == [success |-> "none"]
NoWalletCall == [secret |-> "none"]

MsgNoWallet == "Wallet not initialized"
MsgLimit == "Amount exceeds max buy limit"
MsgBadKey == "Invalid public key input"
MsgLookup == "getAccountInfo failed"
MsgBlockhash == "getLatestBlockhash failed"
MsgSend == "sendTransaction failed"
MsgConfirm == "Transaction was not confirmed"
MsgNotConfigured == "SOLANA_PRIVATE_KEY not configured"
MsgInvalidKey == "Invalid private key format"

\* a call that ran to its return statement / one that threw e at some
\* point; instrs: the instructions of the transaction it handed to
\* sendAndConfirmTransaction, if it got that far; built: the instruction it
\* had buildBuyInstruction / buildSellInstruction make, if it got that far
Returned(result, log, instrs) ==
  [threw |-> FALSE, result |-> result, log |-> log, instrs |-> instrs,
   built |-> NoInstruction]
Threw(e, log) ==
  [threw |-> TRUE, error |-> e, log |-> log, instrs |-> <<>>,
   built |-> NoInstruction]
ThrewSubmitting(e, log, instrs) ==
  [threw |-> TRUE, error |-> e, log |-> log, instrs |-> instrs,
   built |-> NoInstruction]

\* mutant: a failed result carries a signature too
FailureWithSignature(message, amountIn) ==
  [success |-> FALSE, signature |-> "sig", error |-> message,
   amountIn |-> amountIn]

Failure(message, amountIn) ==
  [success |-> FALSE, error |-> message, amountIn |-> amountIn]
Success(amountIn, amountOut) ==
  [success |-> TRUE, signature |-> "sig", amountIn |-> amountIn,
   amountOut |-> amountOut]

\* the errors the collaborators throw are Error objects
ErrorOf(message) == [isError |-> TRUE, message |-> message]

\* mutant: no catch, the error leaves the call
TryCatchNone(run, amountIn) == run

\* catch (error): error instanceof Error ? error.message : "Unknown error"
TryCatch(run, amountIn) ==
  IF run.threw
  THEN [Returned(Failure(IF run.error.isError THEN run.error.message
                         ELSE "Unknown error", amountIn),
                 run.log, run.instrs) EXCEPT !.built = run.built]
  ELSE run

\* mutant: the limit is taken to be in lamports
ExceedsLimitInLamports(solAmount) == solAmount > maxBuyAmount * LamportsPerMilliSol

\* solAmount > config.maxBuyAmount
ExceedsLimit(solAmount) == solAmount > maxBuyAmount

\* the number an integer stands for
FromInt(n) == IF n < 0 THEN FNeg(FromNat(NatOf(-n))) ELSE FromNat(NatOf(n))

\* the number solAmount of a caller who gives n thousandths of a SOL: the
\* number nearest to n / 1000
SolAmountNumber(n) == FDiv(FromInt(n), FromInt(MilliSolPerSol))

\* buyToken from "Calculate expected tokens with slippage" to the built
\* instruction: lamports, expectedTokens, minTokens, buildBuyInstruction;
\* each const is computed once and bound, as the statements do
BuyBuild(reserves, solAmount) ==
  CHOOSE b \in UNION {UNION {
    {[op |-> "buy", solAmount |-> lamports, minTokens |-> minTokens,
      expected |-> expectedTokens,
      ix |-> buildBuyInstruction("wallet", "mint", "bondingCurve",
                                 "associatedBondingCurve", "ata",
                                 lamports, minTokens)] :
       minTokens \in {MinAcceptable(expectedTokens, FromInt(slippageBps))}} :
       expectedTokens \in
         {calculateExpectedTokens(lamports, FromInt(reserves[1]),
                                  FromInt(reserves[2]))}} :
       lamports \in {Floor(FMul(SolAmountNumber(solAmount),
                                FromNat(LAMPORTS_PER_SOL)))}} : TRUE

\* sellToken from "Calculate expected SOL with slippage" to the built
\* instruction: tokenLamports, expectedSol, minSol, buildSellInstruction
SellBuild(reserves, tokenAmount) ==
  CHOOSE b \in UNION {UNION {
    {[op |-> "sell", tokenAmount |-> tokenLamports, minSol |-> minSol,
      expected |-> expectedSol,
      ix |-> buildSellInstruction("wallet", "mint", "bondingCurve",
                                  "associatedBondingCurve", "ata",
                                  tokenLamports, minSol)] :
       minSol \in {MinAcceptable(expectedSol, FromInt(slippageBps))}} :
       expectedSol \in
         {calculateExpectedSol(tokenLamports, FromInt(reserves[1]),
                               FromInt(reserves[2]))}} :
       tokenLamports \in {Floor(FMul(FromInt(tokenAmount),
                                     FromInt(TokenUnitsPerToken)))}} : TRUE

\* the builds of the reserves and amounts offered, each computed once
BuyBuilds ==
  {[reserves |-> r, amount |-> a, build |-> BuyBuild(r, a)] :
     r \in Reserves, a \in BuyAmounts}
SellBuilds ==
  {[reserves |-> r, amount |-> a, build |-> SellBuild(r, a)] :
     r \in Reserves, a \in SellAmounts}

ReservesOf(token) ==
  <<token.virtual_sol_reserves, token.virtual_token_reserves>>
BuyBuildOf(token, solAmount) ==
  (CHOOSE b \in BuyBuilds :
     b.reserves = ReservesOf(token) /\ b.amount = solAmount).build
SellBuildOf(token, tokenAmount) ==
  (CHOOSE b \in SellBuilds :
     b.reserves = ReservesOf(token) /\ b.amount = tokenAmount).build

\* mutant: a failed submission is sent a second time
SubmitRetrying(log, instrs, amountIn, amountOut, bh, sub) ==
  IF bh = "fail"
  THEN Threw(ErrorOf(MsgBlockhash), log \o <<"getLatestBlockhash">>)
  ELSE LET log2 == log \o <<"getLatestBlockhash", "sendAndConfirmTransaction">>
           log3 == log2 \o <<"sendAndConfirmTransaction">>
       IN  CASE sub = "sendFail" -> ThrewSubmitting(ErrorOf(MsgSend), log3, instrs)
             [] sub = "confirmFail" ->
                  ThrewSubmitting(ErrorOf(MsgConfirm), log3, instrs)
             [] OTHER -> Returned(Success(amountIn, amountOut), log2, instrs)

\* mutant: the blockhash is fetched only when none is at hand, so a call
\* the network would answer submits without a fetch of its own
SubmitCachedBlockhash(log, instrs, amountIn, amountOut, bh, sub) ==
  LET log2 == log \o (IF bh = "fail" THEN <<"getLatestBlockhash">> ELSE <<>>)
                  \o <<"sendAndConfirmTransaction">>
  IN  CASE sub = "sendFail" -> ThrewSubmitting(ErrorOf(MsgSend), log2, instrs)
        [] sub = "confirmFail" ->
             ThrewSubmitting(ErrorOf(MsgConfirm), log2, instrs)
        [] OTHER -> Returned(Success(amountIn, amountOut), log2, instrs)

\* getLatestBlockhash() and sendAndConfirmTransaction(), once each
Submit(log, instrs, amountIn, amountOut, bh, sub) ==
  IF bh = "fail"
  THEN Threw(ErrorOf(MsgBlockhash), log \o <<"getLatestBlockhash">>)
  ELSE LET log2 == log \o <<"getLatestBlockhash", "sendAndConfirmTransaction">>
       IN  CASE sub = "sendFail" -> ThrewSubmitting(ErrorOf(MsgSend), log2, instrs)
             [] sub = "confirmFail" ->
                  ThrewSubmitting(ErrorOf(MsgConfirm), log2, instrs)
             [] OTHER -> Returned(Success(amountIn, amountOut), log2, instrs)

\* mutant: the account is created after the buy instruction
BuyInstructionsCreateLast(ata) ==
  <<"buy">> \o (IF ata = "absent" THEN <<"createAssociatedTokenAccount">>
                ELSE <<>>)

\* instructions: the account creation is pushed if (!ataInfo), then the buy
BuyInstructions(ata) ==
  (IF ata = "absent" THEN <<"createAssociatedTokenAccount">> ELSE <<>>)
    \o <<"buy">>

\* the try block of buyToken; ata, bh and sub are what the network answers
BuyBody(token, solAmount, ata, bh, sub) ==
  IF ~token.addrOk THEN Threw(ErrorOf(MsgBadKey), <<>>)
  ELSE IF ata = "fail" THEN Threw(ErrorOf(MsgLookup), <<"getAccountInfo">>)
  ELSE
    CHOOSE run \in
      {[(IF b.ix.threw
         THEN Threw(ErrorOf(b.ix.error), <<"getAccountInfo">>)
         ELSE Submit(<<"getAccountInfo">>, BuyInstructions(ata), solAmount,
                     FDiv(b.expected, FromInt(TokenUnitsPerToken)),
                     bh, sub)) EXCEPT !.built = b] :
         b \in {BuyBuildOf(token, solAmount)}} : TRUE

\* buyToken(token, solAmount)
buyTokenRun(token, solAmount, ata, bh, sub) ==
  IF ~wallet THEN Returned(Failure(MsgNoWallet, solAmount), <<>>, <<>>)
  ELSE IF ExceedsLimit(solAmount)
  THEN Returned(Failure(MsgLimit, solAmount), <<>>, <<>>)
  ELSE TryCatch(BuyBody(token, solAmount, ata, bh, sub), solAmount)

\* the try block of sellToken
SellBody(token, tokenAmount, bh, sub) ==
  IF ~token.addrOk THEN Threw(ErrorOf(MsgBadKey), <<>>)
  ELSE
    CHOOSE run \in
      {[(IF b.ix.threw
         THEN Threw(ErrorOf(b.ix.error), <<>>)
         ELSE Submit(<<>>, <<"sell">>, tokenAmount,
                     FDiv(b.expected, FromNat(LAMPORTS_PER_SOL)),
                     bh, sub)) EXCEPT !.built = b] :
         b \in {SellBuildOf(token, tokenAmount)}} : TRUE

\* sellToken(token, tokenAmount)
sellTokenRun(token, tokenAmount, bh, sub) ==
  IF ~wallet THEN Returned(Failure(MsgNoWallet, tokenAmount), <<>>, <<>>)
  ELSE TryCatch(SellBody(token, tokenAmount, bh, sub), tokenAmount)

\* what a finished call leaves behind
Finish(run) ==
  /\ netlog' = run.log
  /\ txn' = run.instrs
  /\ tresult' = IF run.threw THEN NoResult ELSE run.result
  /\ traised' = run.threw
  /\ built' = run.built

\* buyToken and sellToken leave nothing behind in the trader (this.wallet
\* is only read), so each behaviour follows one call of them, made after any
\* number of initializeWallet() calls
buyToken ==
  \E token \in Tokens, solAmount \in BuyAmounts,
     ata \in {"absent", "present", "fail"}, bh \in {"ok", "fail"},
     sub \in {"confirmed", "sendFail", "confirmFail"} :
    /\ trade = NoTrade
    /\ trade' = [op |-> "buy", token |-> token, amount |-> solAmount,
                 wallet |-> wallet, ata |-> ata, bh |-> bh, sub |-> sub]
    /\ Finish(buyTokenRun(token, solAmount, ata, bh, sub))
    /\ UNCHANGED <<wallet, walletCall>>
    /\ UNCHANGED <<streamVars, subVars, msgVars, priceVars>>

sellToken ==
  \E token \in Tokens, tokenAmount \in SellAmounts, bh \in {"ok", "fail"},
     sub \in {"confirmed", "sendFail", "confirmFail"} :
    /\ trade = NoTrade
    /\ trade' = [op |-> "sell", token |-> token, amount |-> tokenAmount,
                 wallet |-> wallet, ata |-> "none", bh |-> bh, sub |-> sub]
    /\ Finish(sellTokenRun(token, tokenAmount, bh, sub))
    /\ UNCHANGED <<wallet, walletCall>>
    /\ UNCHANGED <<streamVars, subVars, msgVars, priceVars>>

\* mutant: this.wallet is cleared before the secret is decoded
initializeWalletRunClearing(secret) ==
  CASE secret = "empty" -> [wallet |-> wallet, error |-> MsgNotConfigured]
    [] secret = "invalid" -> [wallet |-> FALSE, error |-> MsgInvalidKey]
    [] OTHER -> [wallet |-> TRUE, error |-> "none"]

\* initializeWallet(): throws on an empty secret, and on a secret that
\* bs58.decode or Keypair.fromSecretKey rejects ("invalid"); this.wallet is
\* assigned only after both succeeded
initializeWalletRun(secret) ==
  CASE secret = "empty" -> [wallet |-> wallet, error |-> MsgNotConfigured]
    [] secret = "invalid" -> [wallet |-> wallet, error |-> MsgInvalidKey]
    [] OTHER -> [wallet |-> TRUE, error |-> "none"]

initializeWallet ==
  \E secret \in {"valid", "invalid", "empty"} :
    LET run == initializeWalletRun(secret)
    IN  /\ wallet' = run.wallet
        /\ walletCall' = [secret |-> secret, before |-> wallet,
                          error |-> run.error]
        /\ UNCHANGED <<trade, netlog, txn, tresult, traised>>
        /\ UNCHANGED <<streamVars, subVars, msgVars, priceVars, encVars>>

TraderInit ==
  /\ wallet = FALSE
  /\ walletCall = NoWalletCall
  /\ trade = NoTrade
  /\ netlog = <<>>
  /\ txn = <<>>
  /\ tresult = NoResult
  /\ traised = FALSE

StreamInit ==
  /\ ws = NoSocket
  /\ socks = [s \in Slots |-> FreeSock]
  /\ reconnectAttempts = 0
  /\ isConnected = FALSE
  /\ timers = 0
  /\ lastDelay = 0
  /\ callerConnects = 0
  /\ opens = 0
  /\ autoMade = 0
  /\ shutdown = FALSE

Init ==
  StreamInit /\ SubInit /\ MsgInit /\ TraderInit /\ PriceInit /\ EncoderInit

Next ==
  \/ CallerConnect(MaxCallerConnects)
  \/ TimerFire
  \/ Disconnect
  \/ \E s \in Slots : OpenEvent(s, MaxOpens)
  \/ \E s \in Slots : ErrorEvent(s)
  \/ \E s \in Slots : CloseEvent(s)

Spec == Init /\ [][Next]_vars

\* connect() calls and successful handshakes while the caller subscribes
SubMaxConnects == 1
SubMaxOpens == 2

\* the stream client with its subscription calls
SubNext ==
  \/ CallerConnect(SubMaxConnects)
  \/ TimerFire
  \/ Disconnect
  \/ \E s \in Slots : OpenEvent(s, SubMaxOpens)
  \/ \E s \in Slots : ErrorEvent(s)
  \/ \E s \in Slots : CloseEvent(s)
  \/ \E h \in Handlers : subscribeToNewTokens(h)
  \/ \E m \in Mints, h \in Handlers \cup {NoHandler} : subscribeToToken(m, h)
  \/ \E m \in Mints : unsubscribeFromToken(m)

SubSpec == Init /\ [][SubNext]_vars

\* successful handshakes while frames arrive
MsgMaxOpens == 1

\* one connection, as the command-line program makes it, with the handler
\* registrations and the inbound frames
MsgNext ==
  \/ CallerConnect(CliConnects)
  \/ TimerFire
  \/ Disconnect
  \/ \E s \in Slots : OpenEvent(s, MsgMaxOpens)
  \/ \E s \in Slots : ErrorEvent(s)
  \/ \E s \in Slots : CloseEvent(s)
  \/ \E h \in Handlers : subscribeToNewTokens(h)
  \/ \E h \in Handlers : subscribeToToken("m1", h)
  \/ \E s \in Slots, data \in Frames : MessageEvent(s, data)

MsgSpec == Init /\ [][MsgNext]_vars

\* the trade orchestrator
TraderNext ==
  \/ initializeWallet
  \/ buyToken
  \/ sellToken

TraderSpec == Init /\ [][TraderNext]_vars

\* the instruction builders
EncoderNext ==
  \/ EncodeBuy
  \/ EncodeSell

EncoderSpec == Init /\ [][EncoderNext]_vars

\* the pricing functions
PriceNext ==
  \/ QuoteBuy
  \/ QuoteSell
  \/ QuoteSellBack
  \/ QuoteMin

PriceSpec == Init /\ [][PriceNext]_vars

(* ------------------- stream client: liveness ------------------------- *)
\* the first event of a handshake: "open", or "error" before any open
HandshakeEvent(s) ==
  \/ OpenEvent(s, MaxOpens)
  \/ socks[s].st \in {"connecting", "aborting"} /\ ErrorEvent(s)

\* the caller never calls disconnect()
LiveNext ==
  \/ CallerConnect(MaxCallerConnects)
  \/ TimerFire
  \/ \E s \in Slots : OpenEvent(s, MaxOpens)
  \/ \E s \in Slots : ErrorEvent(s)
  \/ \E s \in Slots : CloseEvent(s)

\* the event loop runs every due timer and delivers every pending socket
\* event; a socket that is open may stay open for ever
LiveSpec ==
  /\ Init
  /\ [][LiveNext]_vars
  /\ WF_vars(TimerFire)
  /\ \A s \in Slots : WF_vars(HandshakeEvent(s))
  /\ \A s \in Slots : WF_vars(socks[s].st \in {"failing", "closing"} /\ CloseEvent(s))

(* ------------------------ stream client: claims ----------------------- *)
SocketCreated == \E s \in Slots : ~Live(s) /\ Live(s)'
OpenStep == \E s \in Slots : socks[s].st = "connecting" /\ socks'[s].st = "open"
CloseStep == \E s \in Slots : socks[s].st \in {"open", "failing", "closing"} /\ ~Live(s)'
TimerScheduled == timers' = timers + 1

\* C1: once disconnect() has been called, no socket is created until the
\* caller calls connect() again -- neither by the close event disconnect()
\* itself causes nor by a reconnect timer that was already pending.
C1_NoAutoConnectAfterDisconnect ==
  [][(shutdown /\ shutdown') => ~SocketCreated]_vars

\* C2: no sixth consecutive automatic reconnect attempt is made: once 5
\* timer-driven connect() calls have been made with no "open" event and no
\* caller connect() in between, no timer is pending or scheduled and no
\* further automatic attempt follows.
C2_AbandonedAfterFive ==
  /\ autoMade <= maxReconnectAttempts
  /\ autoMade = maxReconnectAttempts => timers = 0

BackoffTable == <<2000, 4000, 8000, 16000, 30000>>

\* C6: the delay scheduled before reconnect attempt n is
\* min(1000 * 2^n, 30000): 2000, 4000, 8000, 16000, 30000 for n = 1..5, and
\* the cap is first the smaller of the two at n = 5.
C6_BackoffSequence ==
  [][TimerScheduled =>
       /\ reconnectAttempts' \in 1..maxReconnectAttempts
       /\ lastDelay' = BackoffTable[reconnectAttempts']
       /\ (reconnectAttempts' < 5 => lastDelay' < MaxDelayMs)
       /\ (reconnectAttempts' = 5 => lastDelay' = MaxDelayMs)]_vars

C6_Witness == reconnectAttempts = 5 /\ lastDelay = 30000 /\ timers = 1

\* C7: every "open" event resets the attempt counter to zero, so the counter
\* is zero throughout a Connected period, and the close that ends it
\* schedules attempt 1 of 5 with the 2000 ms delay.
C7_OpenResetsAttempts ==
  /\ [](isConnected => reconnectAttempts = 0)
  /\ [][/\ OpenStep => reconnectAttempts' = 0
        /\ (isConnected /\ CloseStep) =>
             /\ TimerScheduled
             /\ reconnectAttempts' = 1
             /\ lastDelay' = 2000]_vars

\* a second Connected period, reached by an automatic reconnect, has ended
\* and the backoff has restarted
C7_Witness ==
  /\ opens = 2 /\ callerConnects = 1
  /\ reconnectAttempts = 1 /\ lastDelay = 2000 /\ timers = 1

Abandoned ==
  /\ ~isConnected
  /\ reconnectAttempts >= maxReconnectAttempts
  /\ timers = 0
  /\ \A s \in Slots : socks[s].st # "connecting"

\* C8: with no disconnect() and fair delivery of timers and socket events,
\* a client that has lost its connection is eventually Connected again or
\* Abandoned, and it is never left with no socket, no pending timer and
\* attempts to spare.
C8_ReconnectsOrAbandons ==
  /\ [](opens > 0 =>
          ~(/\ \A s \in Slots : ~Live(s)
            /\ timers = 0
            /\ reconnectAttempts < maxReconnectAttempts))
  /\ (opens > 0 /\ ~isConnected) ~> (isConnected \/ Abandoned)

C8_Witness == opens > 0 /\ Abandoned /\ \A s \in Slots : ~Live(s)

\* C9: a connect() call resolves on its socket's "open", fails on an "error"
\* that arrives before any open, and once settled its outcome is not changed
\* by later events of that socket.
C9_ConnectSettlesOnFirstEvent ==
  [][\A s \in Slots :
       /\ (socks[s].st = "connecting" /\ socks'[s].st = "open")
            => socks'[s].promise = "resolved"
       /\ (socks[s].st \in {"connecting", "aborting"} /\ socks'[s].st = "failing")
            => socks'[s].promise = "rejected"
       /\ (socks[s].promise \in {"resolved", "rejected"} /\ Live(s)')
            => socks'[s].promise = socks[s].promise]_vars

\* C14: disconnect() is idempotent: a second call right after the first
\* changes nothing the first call left (this.ws cleared, the same sockets,
\* the same flag) and calls close() on no socket; a disconnect() on a
\* client that never connected changes nothing either.
C14_DisconnectIdempotent ==
  /\ [](LET first == disconnectRun(ws, socks, isConnected)
            second == disconnectRun(first.ws, first.socks, first.isConnected)
        IN  /\ first.ws = NoSocket
            /\ second.ws = first.ws
            /\ second.socks = first.socks
            /\ second.isConnected = first.isConnected
            /\ second.closeCalls = 0)
  /\ [][(ws = NoSocket /\ ~shutdown /\ shutdown') =>
          UNCHANGED <<ws, socks, reconnectAttempts, isConnected, timers>>]_vars
  /\ [][(ws = NoSocket /\ shutdown /\ shutdown') =>
          /\ ws' # NoSocket => SocketCreated
          /\ \A s \in Slots : socks[s].st = "open" => socks'[s].st # "closing"
          /\ \A s \in Slots : socks[s].st = "connecting" =>
                                socks'[s].st # "aborting"]_vars

\* disconnect() has closed the open socket, whose close event is still to
\* come: a second call finds this.ws cleared
C14_Witness ==
  /\ shutdown /\ ws = NoSocket /\ ~isConnected
  /\ \E s \in Slots : socks[s].st = "closing"

(* ------------------- stream client: subscription claims --------------- *)
Connected == ws # NoSocket /\ isConnected

\* the calls the caller can make
CallKinds ==
  [op : {"subscribeToNewTokens"}, callback : Handlers, mint : {"none"}]
    \cup [op : {"subscribeToToken"}, callback : Handlers \cup {NoHandler},
          mint : Mints]
    \cup [op : {"unsubscribeFromToken"}, callback : {NoHandler}, mint : Mints]

CallFrame(c) ==
  CASE c.op = "subscribeToNewTokens" -> [method |-> "subscribeNewToken"]
    [] c.op = "subscribeToToken" ->
         [method |-> "subscribeTokenTrade", keys |-> <<c.mint>>]
    [] OTHER -> [method |-> "unsubscribeTokenTrade", keys |-> <<c.mint>>]

\* the intent of call c is recorded and nothing else of the subscription
\* state is touched
IntentRecorded(c) ==
  /\ onNewToken' = IF c.op = "subscribeToNewTokens" THEN c.callback
                   ELSE onNewToken
  /\ onTrade' = IF c.op = "subscribeToToken" /\ c.callback # NoHandler
                THEN c.callback ELSE onTrade
  /\ subscribedTokens' =
       CASE c.op = "subscribeToToken" -> subscribedTokens \cup {c.mint}
         [] c.op = "unsubscribeFromToken" -> subscribedTokens \ {c.mint}
         [] OTHER -> subscribedTokens

\* C10: every subscribe/unsubscribe call records its intent (handler stored,
\* mint added to or removed from the subscribed set) whatever the connection
\* state, and hands exactly one control frame, the one of that call, to the
\* socket if and only if the client is Connected (holds a socket and is
\* flagged connected) when called; it leaves the connection as it is.
C10_IntentAlwaysFrameIffConnected ==
  [][calls' = calls + 1 =>
       /\ \E c \in CallKinds :
            /\ IntentRecorded(c)
            /\ Connected => nSent' = nSent + 1 /\ lastSent' = CallFrame(c)
            /\ ~Connected => nSent' = nSent /\ lastSent' = lastSent
       /\ UNCHANGED streamVars]_vars

\* a call made while Connected sent its frame; a later call, made after the
\* connection was lost, recorded the mint and the handler and sent nothing
C10_Witness ==
  /\ calls = 2 /\ ~Connected
  /\ nSent = 1 /\ lastSent = [method |-> "subscribeNewToken"]
  /\ onNewToken = "h1" /\ onTrade = "h2" /\ subscribedTokens = {"m2"}

(* ------------------- stream client: inbound-frame claims -------------- *)
\* a "message" event was delivered
MsgStep == msgVars' # msgVars

\* the type tag of a frame; a frame that is no JSON object has none
Tag(data) == IF data.json = "object" THEN data.txType ELSE "missing"

\* the event category of a frame, named by the field that holds its handler
Category(data) ==
  CASE Tag(data) = "create" -> "onNewToken"
    [] Tag(data) \in {"buy", "sell"} -> "onTrade"
    [] OTHER -> "none"

\* the callback most recently registered for a category
Latest(field) ==
  CASE field = "onNewToken" -> registered.newToken
    [] field = "onTrade" -> registered.trade
    [] OTHER -> NoHandler

\* C11: one handler is retained per category, the one registered last: an
\* inbound event of a category invokes that handler, once, and no other;
\* a handler registered earlier is never invoked.
C11_LatestHandlerOnly ==
  /\ [](onNewToken = registered.newToken /\ onTrade = registered.trade)
  /\ [][MsgStep =>
          /\ Len(invoked') <= 1
          /\ \A i \in 1..Len(invoked') :
               /\ invoked'[i].field = Category(lastMsg')
               /\ invoked'[i].callback = Latest(invoked'[i].field)
          /\ Latest(Category(lastMsg')) # NoHandler =>
               invoked' = Invocation(Category(lastMsg'), Latest(Category(lastMsg')))
       ]_vars

\* h1 was registered and invoked; h2 replaced it, and the next new-token
\* event invoked h2 alone
C11_Witness ==
  /\ prevMsg = [json |-> "object", txType |-> "create"]
  /\ prevInvoked = Invocation("onNewToken", "h1")
  /\ lastMsg = [json |-> "object", txType |-> "create"]
  /\ invoked = Invocation("onNewToken", "h2")

\* C12: a frame that is not JSON invokes no handler and touches nothing
\* of the client: no socket is closed, the connected flag, the attempt
\* counter, the subscribed set and the handlers stay as they are; the
\* frame that follows it is dispatched as usual.
C12_MalformedFrameDropped ==
  [][MsgStep =>
       /\ lastMsg'.json = "garbage" =>
            /\ invoked' = <<>>
            /\ UNCHANGED <<streamVars, subVars>>
       /\ (prevMsg'.json = "garbage" /\ Latest(Category(lastMsg')) # NoHandler) =>
            invoked' = Invocation(Category(lastMsg'), Latest(Category(lastMsg')))
    ]_vars

\* on a connection that has been up since its only handshake, a frame that
\* is not JSON invoked nothing and the new-token event after it was
\* dispatched
C12_Witness ==
  /\ Connected /\ ws \in Slots /\ socks[ws].st = "open"
  /\ opens = 1 /\ reconnectAttempts = 0 /\ timers = 0
  /\ prevMsg = [json |-> "garbage"] /\ prevInvoked = <<>>
  /\ lastMsg = [json |-> "object", txType |-> "create"]
  /\ invoked = Invocation("onNewToken", "h1")

InvokedFields == {invoked[i].field : i \in 1..Len(invoked)}

\* C13: a frame that parses invokes at most one handler, chosen by txType
\* alone: the new-token handler exactly for "create", the trade handler
\* exactly for "buy" and "sell" (when one is registered); a frame with any
\* other tag or none invokes nothing; no client state changes.
C13_DispatchByTxType ==
  [][(MsgStep /\ lastMsg'.json # "garbage") =>
       /\ Len(invoked') <= 1
       /\ "onNewToken" \in InvokedFields' <=>
            (Tag(lastMsg') = "create" /\ onNewToken # NoHandler)
       /\ "onTrade" \in InvokedFields' <=>
            (Tag(lastMsg') \in {"buy", "sell"} /\ onTrade # NoHandler)
       /\ \A i \in 1..Len(invoked') :
            invoked'[i].callback =
              IF invoked'[i].field = "onNewToken" THEN onNewToken ELSE onTrade
       /\ Tag(lastMsg') \notin {"create", "buy", "sell"} => invoked' = <<>>
       /\ UNCHANGED <<streamVars, subVars>>
    ]_vars

\* with both handlers registered, a "sell" frame went to the trade handler
\* and the frame with an unknown tag after it went to neither
C13_Witness ==
  /\ onNewToken = "h1" /\ onTrade = "h2"
  /\ prevMsg = [json |-> "object", txType |-> "sell"]
  /\ prevInvoked = Invocation("onTrade", "h2")
  /\ lastMsg = [json |-> "object", txType |-> "swap"]
  /\ invoked = <<>>

(* ---------------------- trade orchestrator: claims -------------------- *)
RECURSIVE CountIn(_, _)
CountIn(log, x) ==
  IF log = <<>> THEN 0
  ELSE (IF Head(log) = x THEN 1 ELSE 0) + CountIn(Tail(log), x)

Submissions == CountIn(netlog, "sendAndConfirmTransaction")
HasResult == trade.op # "none" /\ ~traised
Succeeded == HasResult /\ tresult.success = TRUE
FailedWith(message) ==
  HasResult /\ tresult.success = FALSE /\ tresult.error = message
OverLimit == trade.op = "buy" /\ trade.amount > maxBuyAmount

\* C3 as claimed: a Buy over the configured maximum returns a failed
\* TradeResult with the limit-exceeded error and makes no network call.
C3_OverLimitIsLimitError ==
  OverLimit => FailedWith(MsgLimit) /\ netlog = <<>>

\* C3 as amended: a Buy over the configured maximum returns a failed
\* TradeResult and makes no network call; its error is the limit-exceeded
\* one when a wallet is loaded, and the wallet-not-initialized one otherwise.
C3_OverLimitWithWallet ==
  OverLimit =>
    /\ netlog = <<>> /\ txn = <<>>
    /\ trade.wallet => FailedWith(MsgLimit)
    /\ ~trade.wallet => FailedWith(MsgNoWallet)

C3_Witness == OverLimit /\ trade.wallet /\ FailedWith(MsgLimit) /\ netlog = <<>>

PreconditionFails == trade.op # "none" /\ (~trade.wallet \/ OverLimit)

\* C4: a Buy or Sell call submits exactly one transaction when it returns
\* success, none when a precondition fails (no wallet, or a buy over the
\* limit), and never more than one: a failed submission is not retried.
C4_OneSubmissionPerCall ==
  /\ Submissions <= 1
  /\ Succeeded => Submissions = 1
  /\ PreconditionFails => Submissions = 0

\* the submission failed and was not repeated
C4_Witness == FailedWith(MsgSend) /\ Submissions = 1

\* the steps of the call that ran past the preconditions, by what the
\* inputs and the network gave them
Ran == trade.op # "none" /\ trade.wallet /\ ~OverLimit
Resolved == Ran /\ trade.token.addrOk
LookedUp == Resolved /\ (trade.op = "buy" => trade.ata # "fail")
InputReserve ==
  IF trade.op = "buy" THEN trade.token.virtual_sol_reserves
  ELSE trade.token.virtual_token_reserves
Built == LookedUp /\ trade.amount >= 0 /\ InputReserve + trade.amount # 0
Fetched == Built /\ trade.bh = "ok"

\* C5: Buy and Sell never raise and always return a TradeResult; a failure
\* of address resolution, of the receiving-account lookup, of the
\* instruction build, of the checkpoint fetch, of the submission or of the
\* confirmation gives success=false with that failure's message.
C5_AlwaysReturnsResult ==
  /\ ~traised
  /\ trade.op # "none" => tresult.success \in BOOLEAN /\ tresult.amountIn = trade.amount
  /\ (Ran /\ ~Resolved) => FailedWith(MsgBadKey)
  /\ (Resolved /\ ~LookedUp) => FailedWith(MsgLookup)
  /\ (LookedUp /\ ~Built) => FailedWith(MsgNaN) \/ FailedWith(MsgRange)
  /\ (Built /\ ~Fetched) => FailedWith(MsgBlockhash)
  /\ (Fetched /\ trade.sub = "sendFail") => FailedWith(MsgSend)
  /\ (Fetched /\ trade.sub = "confirmFail") => FailedWith(MsgConfirm)
  /\ (Fetched /\ trade.sub = "confirmed") => Succeeded

\* the confirmation of a submitted buy failed and came back as a result
C5_Witness ==
  trade.op = "buy" /\ Fetched /\ FailedWith(MsgConfirm) /\ Submissions = 1

\* the call handed a transaction to sendAndConfirmTransaction
Submitted == Submissions >= 1

\* C15: a Buy or Sell on a snapshot whose complete flag is set does not
\* reach the submission step.
C15_NoSubmissionWhenComplete ==
  (trade.op # "none" /\ trade.token.complete) => ~Submitted /\ txn = <<>>

\* C16: the transaction of a Buy holds the account-creation instruction
\* exactly when the lookup of the receiving account answered absent, and
\* then before the buy instruction; the transaction of a Sell is the sell
\* instruction alone.
C16_CreateIffAbsent ==
  /\ (trade.op = "buy" /\ Submitted) =>
       /\ trade.ata = "absent" => txn = <<"createAssociatedTokenAccount", "buy">>
       /\ trade.ata # "absent" => txn = <<"buy">>
  /\ (trade.op = "sell" /\ Submitted) => txn = <<"sell">>
  /\ (trade.op # "none" /\ ~Submitted) => txn = <<>>

\* a buy whose lookup answered absent was submitted with the creation first
C16_Witness ==
  /\ trade.op = "buy" /\ trade.ata = "absent" /\ Succeeded
  /\ txn = <<"createAssociatedTokenAccount", "buy">>

(* --------------------------- pricing: claims -------------------------- *)
\* C17: for reserves above zero and an input amount of zero or more, the
\* expected output of a buy is not negative, and for an input above zero
\* it is strictly less than the token reserve.
C17_BuyOutputInRange ==
  (quote.op = "buy" /\ quote.sol # <<>> /\ quote.token # <<>>) =>
    /\ FCmp(quote.out, Zero) >= 0
    /\ quote.amountIn # <<>> => FCmp(quote.out, FromNat(quote.token)) < 0

\* C18: selling the tokens a buy of x gives, against the reserves that buy
\* leaves, returns no more than x.
C18_RoundTripNoGain ==
  quote.op = "sellBack" => FCmp(quote.out, FromNat(quote.paid)) <= 0

\* floor(amountOut * (10000 - slippageBps) / 10000), on naturals
ExactMin(amountOut, bps) ==
  BDivMod(BMul(amountOut, NatOf(10000 - bps)), NatOf(10000)).q

\* C19: MinAcceptable is the floor of amountOut * (10000 - slippageBps) /
\* 10000: never above it, never above amountOut, amountOut itself at a
\* tolerance of 0 and 0 at a tolerance of 10000.
C19_MinAcceptableIsFloor ==
  quote.op = "min" =>
    /\ quote.out = FromNat(ExactMin(quote.amountOut, quote.slippageBps))
    /\ FCmp(quote.out, FromNat(quote.amountOut)) <= 0
    /\ quote.slippageBps = 0 => quote.out = FromNat(quote.amountOut)
    /\ quote.slippageBps = 10000 => quote.out = Zero

\* C20: with reserves of 30_000_000_000 lamports and 1_000_000_000_000
\* token units, a buy of 1_000_000_000 lamports is expected to give
\* 32_258_064_516 token units.
C20_ScenarioExpectedTokens ==
  (/\ quote.op = "buy"
   /\ quote.sol = Dec(<<30, 0, 0, 0>>)
   /\ quote.token = Dec(<<1, 0, 0, 0, 0>>)
   /\ quote.amountIn = Dec(<<1, 0, 0, 0>>)) =>
    quote.out = FromNat(Dec(<<32, 258, 64, 516>>))

\* C23: for reserves and an input amount of zero or more, zero included, the
\* expected output of a buy and of a sell is a whole number, zero or above.
C23_PricingTotal ==
  quote.op \in {"buy", "sell"} =>
    IsInteger(quote.out) /\ FCmp(quote.out, Zero) \in {0, 1}

\* C30: the expected output of a sell of a against reserves (s, t), s and t
\* above zero, is the expected output of a buy of a against reserves with the
\* roles swapped, (t, s): s - (s * t) / (t + a).
C30_SellIsSwappedBuy ==
  (quote.op = "sell" /\ quote.sol # <<>> /\ quote.token # <<>>) =>
    LET a == FromNat(quote.amountIn)
        s == FromNat(quote.sol)
        t == FromNat(quote.token)
    IN  /\ quote.out = calculateExpectedTokens(a, t, s)
        /\ quote.out = FSub(s, FDiv(FMul(s, t), FAdd(t, a)))

\* a sell of 1000 base units against reserves 3 / 7 was priced
C30_Witness ==
  /\ quote.op = "sell" /\ quote.sol = NatOf(3) /\ quote.token = NatOf(7)
  /\ quote.amountIn = NatOf(1000)
  /\ FCmp(quote.out, FromNat(NatOf(2))) = 1
  /\ FCmp(quote.out, FromNat(NatOf(3))) = -1

(* ---------------------- instruction encoder: claims ------------------- *)
\* x is a whole amount of the unsigned 64-bit range
IsUInt64(x) ==
  /\ IsInteger(x)
  /\ FCmp(x, Zero) \in {0, 1}
  /\ FCmp(x, FromNat(BShl(NatOf(1), 64))) = -1

\* the natural a whole number x >= 0 stands for
NaturalOf(x) ==
  IF IsZero(x) THEN <<>>
  ELSE IF x.e >= 0 THEN BMul(x.m, BShl(NatOf(1), x.e))
  ELSE BDivMod(x.m, BShl(NatOf(1), -x.e)).q

\* the k least significant base-256 digits of n, the least significant first
RECURSIVE LittleEndian(_, _)
LittleEndian(n, k) ==
  IF k = 0 THEN <<>>
  ELSE LET d == BDivMod(n, NatOf(256))
       IN  <<IF d.r = <<>> THEN 0 ELSE d.r[1]>> \o LittleEndian(d.q, k - 1)

\* the two amounts of the latest build in the order of the payload
PayloadFields ==
  IF built.op = "buy" THEN <<built.minTokens, built.solAmount>>
  ELSE <<built.tokenAmount, built.minSol>>

\* C21: for both directions and every pair of whole amounts of the unsigned
\* 64-bit range the builder gives a payload of exactly 24 bytes: bytes 0-7
\* are the discriminator of the direction (the two differ), bytes 8-15 and
\* 16-23 the 8-byte little-endian encodings of (minTokens, solAmount) for a
\* buy and of (tokenAmount, minSol) for a sell.
C21_PayloadLayout ==
  /\ buyDiscriminator # sellDiscriminator
  /\ Len(buyDiscriminator) = 8 /\ Len(sellDiscriminator) = 8
  /\ (built.op # "none" /\ IsUInt64(PayloadFields[1])
        /\ IsUInt64(PayloadFields[2])) =>
       /\ ~built.ix.threw
       /\ Len(built.ix.data) = 24
       /\ SubSeq(built.ix.data, 1, 8) =
            (IF built.op = "buy" THEN buyDiscriminator ELSE sellDiscriminator)
       /\ SubSeq(built.ix.data, 9, 16) =
            LittleEndian(NaturalOf(PayloadFields[1]), 8)
       /\ SubSeq(built.ix.data, 17, 24) =
            LittleEndian(NaturalOf(PayloadFields[2]), 8)

\* a buy of 50,000,000 lamports for at least 47,499,999 base units and its
\* payload
C21_Witness ==
  /\ built.op = "buy"
  /\ built.minTokens = FromNat(NatOf(47499999))
  /\ built.solAmount = FromNat(NatOf(50000000))
  /\ ~built.ix.threw
  /\ built.ix.data = <<102, 6, 61, 18, 1, 218, 235, 234,
                        223, 202, 212, 2, 0, 0, 0, 0,
                        128, 240, 250, 2, 0, 0, 0, 0>>

\* C22: every instruction the builders give, buy or sell, lists exactly nine
\* accounts in this order: the global state (read-only), the fee recipient
\* (writable), the mint (read-only), the bonding curve (writable), the
\* associated bonding curve (writable), the trader's token account
\* (writable), the trader's wallet (writable, the only signer), the system
\* program (read-only), the token program (read-only).
C22_AccountOrder ==
  (built.op # "none" /\ ~built.ix.threw) =>
    /\ Len(built.ix.keys) = 9
    /\ [i \in 1..9 |-> built.ix.keys[i].pubkey] =
         << PUMP_GLOBAL_STATE, PUMP_FUN_FEE_RECIPIENT, "mint", "bondingCurve",
            "associatedBondingCurve", "ata", "wallet", SystemProgramId,
            TOKEN_PROGRAM_ID >>
    /\ [i \in 1..9 |-> built.ix.keys[i].isWritable] =
         <<FALSE, TRUE, FALSE, TRUE, TRUE, TRUE, TRUE, FALSE, FALSE>>
    /\ \A i \in 1..9 : built.ix.keys[i].isSigner <=> i = 7

\* a sell instruction was built, the wallet its seventh account and signer
C22_Witness ==
  /\ built.op = "sell" /\ ~built.ix.threw
  /\ built.ix.keys[7] = [pubkey |-> "wallet", isSigner |-> TRUE,
                          isWritable |-> TRUE]
  /\ built.ix.keys[6].pubkey = "ata"

(* ------------------- trade orchestrator: further claims --------------- *)
\* C24: initializeWallet() on a secret that cannot be decoded, or from which
\* no key can be derived, throws the invalid-key-format error and leaves
\* this.wallet as it was; if no wallet was loaded before it, a Buy or Sell
\* returns a failed TradeResult and makes no network call.
C24_FailedLoadKeepsWallet ==
  walletCall.secret = "invalid" =>
    /\ walletCall.error = MsgInvalidKey
    /\ wallet = walletCall.before
    /\ (~walletCall.before /\ trade.op # "none") =>
         /\ ~traised
         /\ tresult.success = FALSE
         /\ netlog = <<>> /\ txn = <<>>

\* a failed initializeWallet() with no wallet loaded, and a buy refused
C24_Witness ==
  /\ walletCall = [secret |-> "invalid", before |-> FALSE,
                   error |-> MsgInvalidKey]
  /\ ~wallet
  /\ trade.op = "buy" /\ FailedWith(MsgNoWallet) /\ netlog = <<>>

\* C25: a TradeResult is either success=true with a signature and an output
\* amount and no error, or success=false with an error message and no
\* signature; success=true is returned only after the submission was
\* confirmed.
C25_ResultShape ==
  trade.op # "none" =>
    /\ ~traised
    /\ \/ /\ tresult.success = TRUE
          /\ DOMAIN tresult = {"success", "signature", "amountIn", "amountOut"}
          /\ IsFinite(tresult.amountOut)
          /\ Submissions = 1
          /\ netlog[Len(netlog)] = "sendAndConfirmTransaction"
          /\ trade.sub = "confirmed"
       \/ /\ tresult.success = FALSE
          /\ DOMAIN tresult = {"success", "error", "amountIn"}

\* a confirmed sell returned success with the expected SOL as its output
C25_Witness ==
  /\ trade.op = "sell" /\ Succeeded
  /\ trade.sub = "confirmed"
  /\ FCmp(tresult.amountOut, Zero) = 1

\* the latest call had its instruction built
InstructionBuilt ==
  IF built.op = "none" THEN FALSE ELSE built.op = trade.op /\ ~built.ix.threw

\* C28: a call that submits fetched the blockhash itself, once, after the
\* lookup of the receiving account and the build of the instruction and
\* right before the submission, with no network call between the two; a
\* call whose build failed fetched none.
C28_FreshCheckpoint ==
  /\ Submitted =>
       /\ InstructionBuilt
       /\ CountIn(netlog, "getLatestBlockhash") = 1
       /\ netlog = (IF trade.op = "buy" THEN <<"getAccountInfo">> ELSE <<>>)
                     \o <<"getLatestBlockhash", "sendAndConfirmTransaction">>
  /\ (trade.op # "none" /\ ~InstructionBuilt) =>
       CountIn(netlog, "getLatestBlockhash") = 0

\* a buy looked up the account, fetched the blockhash and submitted
C28_Witness ==
  /\ trade.op = "buy" /\ Succeeded
  /\ netlog = <<"getAccountInfo", "getLatestBlockhash",
                "sendAndConfirmTransaction">>

\* the expected output on naturals: the output reserve less the new output
\* reserve, k divided by the new input reserve
ExactExpected(amountIn, reserveIn, reserveOut) ==
  BSub(reserveOut,
       BDivMod(BMul(reserveIn, reserveOut), BAdd(reserveIn, amountIn)).q)

\* C29: the payload of a Buy holds the input amount in lamports as its second
\* field and MinAcceptable(ExpectedOut(buy, lamports, reserves), slippageBps)
\* as its first; the payload of a Sell holds the token amount in base units
\* as its first field and MinAcceptable(ExpectedOut(sell, tokenAmount,
\* reserves), slippageBps) as its second.  Both are whole numbers of zero or
\* more, and the minimum is not above the expected output.
C29_EncodedAmounts ==
  (trade.op # "none" /\ InstructionBuilt) =>
    LET sol == NatOf(trade.token.virtual_sol_reserves)
        token == NatOf(trade.token.virtual_token_reserves)
        amountIn == NatOf(trade.amount * (IF trade.op = "buy"
                                          THEN LamportsPerMilliSol
                                          ELSE TokenUnitsPerToken))
        expected == IF trade.op = "buy" THEN ExactExpected(amountIn, sol, token)
                    ELSE ExactExpected(amountIn, token, sol)
        min == ExactMin(expected, slippageBps)
        data == built.ix.data
    IN  /\ IsUInt64(PayloadFields[1]) /\ IsUInt64(PayloadFields[2])
        /\ BCmp(min, expected) <= 0
        /\ trade.op = "buy" =>
             /\ SubSeq(data, 17, 24) = LittleEndian(amountIn, 8)
             /\ SubSeq(data, 9, 16) = LittleEndian(min, 8)
        /\ trade.op = "sell" =>
             /\ SubSeq(data, 9, 16) = LittleEndian(amountIn, 8)
             /\ SubSeq(data, 17, 24) = LittleEndian(min, 8)

\* C26: at any time at most one socket of the client is connecting or open;
\* a socket is created only when the one before it is closed and no other
\* attempt is in progress.
C26_OneLiveSocket ==
  Cardinality({s \in Slots : socks[s].st \in {"connecting", "open"}}) <= 1

\* C27: this.isConnected is true exactly when the socket held in this.ws is
\* open: it is never true while this.ws holds no socket or a socket that is
\* not open (a socket that was open stays held while its error event is
\* followed by its close event), and it is true whenever the held socket is
\* open, so events of other sockets have not changed it.
C27_FlagMatchesHeldSocket ==
  /\ isConnected => (ws \in Slots /\ socks[ws].st \in {"open", "failing"})
  /\ (ws \in Slots /\ socks[ws].st = "open") => isConnected

\* C31: a step that is not a subscribe/unsubscribe call of the caller (a
\* connect, a socket event, a reconnect timer, a disconnect) sends no control
\* frame and leaves the registered handlers and the subscribed mints as they
\* are: nothing is re-issued when a reconnect succeeds.
C31_NoResubscribeOnReconnect ==
  [][calls' = calls =>
       UNCHANGED <<onNewToken, onTrade, subscribedTokens, nSent, lastSent>>]_vars

\* the caller connected once and subscribed to new tokens while Connected
\* (one frame); the socket closed; a mint was subscribed while not Connected
\* (no frame); the socket made by the reconnect timer opened: still one
\* frame, handlers and mints kept
C31_Witness ==
  /\ callerConnects = 1 /\ opens = 2 /\ Connected
  /\ calls = 2 /\ nSent = 1 /\ lastSent = [method |-> "subscribeNewToken"]
  /\ onNewToken = "h1" /\ onTrade = "h2" /\ subscribedTokens = {"m1"}

\* 10^15 base units, the largest reserve the statement speaks of
MaxReserve == Dec(<<1, 0, 0, 0, 0, 0>>)

\* const k = virtualSolReserves * virtualTokenReserves, as both pricing
\* functions compute it
ConstantProduct(virtualSolReserves, virtualTokenReserves) ==
  FMul(virtualSolReserves, virtualTokenReserves)

\* C32: for reserves of at most 10^15 base units each, the constant product
\* k the pricing functions compute is the product of the two reserves: a
\* finite whole number, with no digit lost.
C32_ProductExact ==
  (/\ quote.op \in {"buy", "sell"}
   /\ BCmp(quote.sol, MaxReserve) <= 0
   /\ BCmp(quote.token, MaxReserve) <= 0) =>
    LET k == BigInt(ConstantProduct(FromNat(quote.sol), FromNat(quote.token)))
    IN  /\ ~k.threw
        /\ k.s = 1
        /\ k.n = BMul(quote.sol, quote.token)

====
